---- MODULE Spec2Model ----
(***************************************************************************)
(* Model of the pluggable decision engine of src/decision_engine.py:       *)
(* the engine objects (RuleBased, MLBased, Hybrid) behind the              *)
(* DecisionEngine facade, their load step, and BaseDecisionEngine's        *)
(* make_decision with the scorers it calls (specification Spec,           *)
(* SpecRepeated for a caller who passes the same arguments again, and      *)
(* SpecConcurrent for callers whose calls overlap); and of src/backend.py: *)
(* the server's own process-wide decision_engine object (specification     *)
(* SpecBackend) and the endpoints that write the tables instances and      *)
(* pending_switch_commands (specification SpecEndpoints).  Each            *)
(* specification holds the variables of the others at their initial        *)
(* values.                                                                 *)
(*                                                                         *)
(* Numbers.  Prices are integers in one price unit; a ratio is a pair      *)
(* [n, d] with d > 0 and is compared by cross-multiplication.  Risk        *)
(* scores and ratio thresholds are in hundredths (0.85 is 85), percentages *)
(* are whole percents, time is in whole hours.  The code computes in       *)
(* binary floating point: a savings percentage ((a - b) / od) * 100 takes  *)
(* three rounded operations and, when its exact value is the percentage    *)
(* it is compared with, the computed value can fall just below it          *)
(* (od = 0.053, b = 0.0212: 59.999999999999986 for 60).  Whether it does   *)
(* depends on the prices the integers stand for, so a pricing snapshot     *)
(* carries it as pct_rounds_down.  A price ratio is one division and is    *)
(* taken at its exact value.                                               *)
(*                                                                         *)
(* Python's None is the empty sequence <<>> and a present value v is <<v>>.*)
(* A call that raises yields a record whose field raised names the         *)
(* exception; a call that returns has raised = "".                         *)
(***************************************************************************)
EXTENDS Integers, Sequences, FiniteSets, TLC

VARIABLES
    engine_type,        \* DecisionEngineConfig.engine_type of the facade
    loaded,             \* self.loaded of the ml, rule and hybrid engine objects
    capacity_detector,  \* MLBasedDecisionEngine.capacity_detector
    price_predictor,    \* MLBasedDecisionEngine.price_predictor
    load_count,         \* number of DecisionEngine.load() calls made so far
    load_raised,        \* the last DecisionEngine.load() call propagated an exception
    ml_load_raised,     \* the last MLBasedDecisionEngine.load() call raised
    now,                \* the clock (datetime.utcnow()), in hours
    call,               \* the arguments of the last make_decision call
    result,             \* what that call returned or raised; NoResult until
                        \* the engine, as it now is, has served a call
    first_served,       \* the clock when the caller who repeats a call first
                        \* passed its arguments
    decision_engine,    \* backend.py: the global decision_engine object
    switch_request,     \* backend.py: the arguments of the last should_switch call
    switch_answer,      \* backend.py: what that call returned
    health,             \* backend.py: the last response of GET /health
    threads,            \* concurrent callers of make_decision: how far each
                        \* one's call has got and its local variables
    agents,             \* backend.py: the rows of table agents
    instances,          \* backend.py: the rows of table instances
    pending_switch_commands,  \* backend.py: the rows of that table, by id
    handlers,           \* backend.py: the requests being handled: endpoint,
                        \* position and local variables of each
    request_count       \* backend.py: number of requests received so far

vars == <<engine_type, loaded, capacity_detector, price_predictor,
          load_count, load_raised, ml_load_raised, now, call, result,
          first_served, decision_engine, switch_request, switch_answer, health,
          threads, agents, instances, pending_switch_commands, handlers,
          request_count>>

engine_vars == <<engine_type, loaded, capacity_detector, price_predictor,
                 load_count, load_raised, ml_load_raised, now, call, result,
                 first_served>>

endpoint_vars == <<agents, instances, pending_switch_commands, handlers,
                   request_count>>

backend_vars == <<decision_engine, switch_request, switch_answer, health,
                  agents, instances, pending_switch_commands, handlers,
                  request_count>>

-----------------------------------------------------------------------------
(* Bounds of the model *)

MaxTime == 1        \* the clock runs from 0 to MaxTime hours
MaxLoads == 1       \* number of load() calls a behaviour makes
MaxRequests == 3    \* number of requests the server receives

-----------------------------------------------------------------------------
(* Input domains *)

None == <<>>
Some(v) == <<v>>

EngineTypes == {"ml_based", "rule_based", "hybrid"}
Modes == {"spot", "ondemand"}
PoolIds == {"P1", "P2"}
InstancePoolIds == {"P1", "unknown"}
Prices == {8, 9, 17, 20}
OnDemandPrices == {0, 10, 20}
RecentSwitchCounts == {0, 1}

Quotes == [pool_id : PoolIds, price : Prices]

\* spot_pools lists: at most one quote per pool_id (spec.md, PricingSnapshot)
SpotPoolLists ==
    UNION { { q \in [1..n -> Quotes] :
                \A i, j \in 1..n : i # j => q[i].pool_id # q[j].pool_id }
            : n \in 0..Cardinality(PoolIds) }

Instances == [instance_id : {"i-1"}, current_mode : Modes,
              current_pool_id : InstancePoolIds]

\* some savings amount the code can form from these prices is exactly pct
\* percent of on_demand_price
PctOnBoundary(on_demand_price, spot_pools, pct) ==
    /\ on_demand_price > 0
    /\ \E i, j \in 1..Len(spot_pools) :
         \/ (on_demand_price - spot_pools[i].price) * 100 = pct * on_demand_price
         \/ (spot_pools[i].price - spot_pools[j].price) * 100 = pct * on_demand_price

Pricings == [on_demand_price : OnDemandPrices, spot_pools : SpotPoolLists,
             pct_rounds_down : BOOLEAN]

Policies == [auto_switch_enabled : BOOLEAN,
             min_savings_percent : {5, 60},
             risk_threshold : {70, 90},
             max_switches_per_week : {1},
             min_pool_duration_hours : {1}]

\* pct_rounds_down is told apart only where a percentage can fall on
\* min_savings_percent
Calls ==
    { c \in [instance : Instances, pricing : Pricings, config : Policies,
             recent_switches_count : RecentSwitchCounts,
             last_switch_time : {None, Some(0)}] :
        c.pricing.pct_rounds_down =>
            PctOnBoundary(c.pricing.on_demand_price, c.pricing.spot_pools,
                          c.config.min_savings_percent) }

-----------------------------------------------------------------------------
(* The loaded model bundle: capacity_detector['pool_context'] and          *)
(* capacity_detector['config'] of a well-formed artifact.  P2 and          *)
(* "unknown" have no entry (pools absent from the training data).          *)

pool_context == [P1 |-> [ratio_p50 |-> 50, ratio_p92 |-> 85]]

model_cfg == [ratio_spike_threshold |-> 30,
              ratio_absolute_high |-> 95,
              ratio_safe_return |-> 42]

\* RuleBasedDecisionEngine.rules
rules == [high_price_threshold |-> 85,
          safe_price_threshold |-> 40,
          spike_threshold |-> 30]

-----------------------------------------------------------------------------
(* Risk scorers *)

\* mutant of ScoreResult: the score is reported in percent, not as a fraction
ScoreResult_percent(score, state, reason) ==
    [raised |-> "", risk_score |-> score * 100, state |-> state, reason |-> reason]

ScoreResult(score, state, reason) ==
    [raised |-> "", risk_score |-> score, state |-> state, reason |-> reason]

ScoreRaised(exc) ==
    [raised |-> exc, risk_score |-> 0, state |-> "", reason |-> ""]

\* price_ratio = current_price / ondemand_price if ondemand_price > 0 else 1.0
\* (evaluated only where the division is defined)
PriceRatio(current_price, ondemand_price) ==
    IF ondemand_price > 0
    THEN [n |-> current_price[1], d |-> ondemand_price]
    ELSE [n |-> 1, d |-> 1]

\* None / ondemand_price is a TypeError
RatioFails(current_price, ondemand_price) ==
    ondemand_price > 0 /\ current_price = None

\* mutant of RuleBased_calculate_risk_score: both thresholds are exclusive
RuleBased_calculate_risk_score_strict(pool_id, current_price, current_discount, ondemand_price) ==
    IF ~loaded.rule THEN ScoreResult(50, "normal", "Engine not loaded")
    ELSE IF RatioFails(current_price, ondemand_price) THEN ScoreRaised("TypeError")
    ELSE LET r == PriceRatio(current_price, ondemand_price) IN
         IF r.n * 100 > rules.high_price_threshold * r.d
         THEN ScoreResult(85, "high-risk", "Price ratio >= high_price_threshold")
         ELSE IF r.n * 100 < rules.safe_price_threshold * r.d
         THEN ScoreResult(15, "safe-to-return", "Price ratio <= safe_price_threshold")
         ELSE ScoreResult(35, "normal", "Price ratio in normal range")

RuleBased_calculate_risk_score(pool_id, current_price, current_discount, ondemand_price) ==
    IF ~loaded.rule THEN ScoreResult(50, "normal", "Engine not loaded")
    ELSE IF RatioFails(current_price, ondemand_price) THEN ScoreRaised("TypeError")
    ELSE LET r == PriceRatio(current_price, ondemand_price) IN
         IF r.n * 100 >= rules.high_price_threshold * r.d
         THEN ScoreResult(85, "high-risk", "Price ratio >= high_price_threshold")
         ELSE IF r.n * 100 <= rules.safe_price_threshold * r.d
         THEN ScoreResult(15, "safe-to-return", "Price ratio <= safe_price_threshold")
         ELSE ScoreResult(35, "normal", "Price ratio in normal range")

\* mutant of MLBased_calculate_risk_score: the spike rule is tried before the
\* p92 rule
MLBased_calculate_risk_score_spike_first(pool_id, current_price, current_discount, ondemand_price) ==
    IF ~loaded.ml THEN ScoreResult(50, "normal", "Models not loaded")
    ELSE IF capacity_detector # "valid" THEN ScoreRaised("KeyError")
    ELSE IF pool_id \notin DOMAIN pool_context
    THEN ScoreResult(50, "normal", "Pool not in training data")
    ELSE IF RatioFails(current_price, ondemand_price) THEN ScoreRaised("TypeError")
    ELSE LET context == pool_context[pool_id]
             cfg == model_cfg
             r == PriceRatio(current_price, ondemand_price)
         IN IF r.n * 100 > cfg.ratio_absolute_high * r.d
            THEN ScoreResult(90, "event", "Ratio exceeds absolute threshold")
            ELSE IF r.n * 10000 > context.ratio_p50 * (100 + cfg.ratio_spike_threshold) * r.d
            THEN ScoreResult(60, "high-risk", "Ratio spike detected")
            ELSE IF r.n * 100 > context.ratio_p92 * r.d
            THEN ScoreResult(80, "high-risk", "Ratio above p92")
            ELSE IF r.n * 100 < cfg.ratio_safe_return * r.d
            THEN ScoreResult(20, "safe-to-return", "Ratio below safe threshold")
            ELSE ScoreResult(30, "normal", "Normal conditions")

\* mutant of MLBased_calculate_risk_score: the context of a pool is read
\* without the test for its absence
MLBased_calculate_risk_score_unchecked(pool_id, current_price, current_discount, ondemand_price) ==
    IF ~loaded.ml THEN ScoreResult(50, "normal", "Models not loaded")
    ELSE IF capacity_detector # "valid" THEN ScoreRaised("KeyError")
    ELSE IF pool_id \notin DOMAIN pool_context THEN ScoreRaised("TypeError")
    ELSE IF RatioFails(current_price, ondemand_price) THEN ScoreRaised("TypeError")
    ELSE LET context == pool_context[pool_id]
             cfg == model_cfg
             r == PriceRatio(current_price, ondemand_price)
         IN IF r.n * 100 > cfg.ratio_absolute_high * r.d
            THEN ScoreResult(90, "event", "Ratio exceeds absolute threshold")
            ELSE IF r.n * 100 > context.ratio_p92 * r.d
            THEN ScoreResult(80, "high-risk", "Ratio above p92")
            ELSE IF r.n * 10000 > context.ratio_p50 * (100 + cfg.ratio_spike_threshold) * r.d
            THEN ScoreResult(60, "high-risk", "Ratio spike detected")
            ELSE IF r.n * 100 < cfg.ratio_safe_return * r.d
            THEN ScoreResult(20, "safe-to-return", "Ratio below safe threshold")
            ELSE ScoreResult(30, "normal", "Normal conditions")

MLBased_calculate_risk_score(pool_id, current_price, current_discount, ondemand_price) ==
    IF ~loaded.ml THEN ScoreResult(50, "normal", "Models not loaded")
    ELSE IF capacity_detector # "valid" THEN ScoreRaised("KeyError")
    ELSE IF pool_id \notin DOMAIN pool_context
    THEN ScoreResult(50, "normal", "Pool not in training data")
    ELSE IF RatioFails(current_price, ondemand_price) THEN ScoreRaised("TypeError")
    ELSE LET context == pool_context[pool_id]
             cfg == model_cfg
             r == PriceRatio(current_price, ondemand_price)
             ratio_spike ==
                 r.n * 10000 > context.ratio_p50 * (100 + cfg.ratio_spike_threshold) * r.d
             ratio_absolute_high == r.n * 100 > cfg.ratio_absolute_high * r.d
             ratio_event == r.n * 100 > context.ratio_p92 * r.d
         IN IF ratio_absolute_high
            THEN ScoreResult(90, "event", "Ratio exceeds absolute threshold")
            ELSE IF ratio_event
            THEN ScoreResult(80, "high-risk", "Ratio above p92")
            ELSE IF ratio_spike
            THEN ScoreResult(60, "high-risk", "Ratio spike detected")
            ELSE IF r.n * 100 < cfg.ratio_safe_return * r.d
            THEN ScoreResult(20, "safe-to-return", "Ratio below safe threshold")
            ELSE ScoreResult(30, "normal", "Normal conditions")

Hybrid_calculate_risk_score(pool_id, current_price, current_discount, ondemand_price) ==
    IF loaded.ml
    THEN MLBased_calculate_risk_score(pool_id, current_price, current_discount, ondemand_price)
    ELSE RuleBased_calculate_risk_score(pool_id, current_price, current_discount, ondemand_price)

\* self.calculate_risk_score of the engine object the facade selected
calculate_risk_score(pool_id, current_price, current_discount, ondemand_price) ==
    IF engine_type = "ml_based"
    THEN MLBased_calculate_risk_score(pool_id, current_price, current_discount, ondemand_price)
    ELSE IF engine_type = "rule_based"
    THEN RuleBased_calculate_risk_score(pool_id, current_price, current_discount, ondemand_price)
    ELSE Hybrid_calculate_risk_score(pool_id, current_price, current_discount, ondemand_price)

-----------------------------------------------------------------------------
(* BaseDecisionEngine.make_decision *)

\* Python truth value of current_spot_price: None and 0 are false
Falsy(price) == IF price = None THEN TRUE ELSE price[1] = 0

\* lines 83-87: the price of the first quote whose pool_id is the instance's
MatchedPrice(instance, pricing) ==
    LET pools == pricing.spot_pools
        hits == { i \in 1..Len(pools) : pools[i].pool_id = instance.current_pool_id }
    IN IF hits = {} THEN None
       ELSE Some(pools[CHOOSE i \in hits : \A j \in hits : i <= j].price)

\* mutant of ResolveCurrent: the first quote is not substituted
ResolveCurrent_no_substitution(instance, pricing) ==
    [pool_id |-> instance.current_pool_id, price |-> MatchedPrice(instance, pricing)]

\* lines 79-91: the pool and price make_decision treats as current
ResolveCurrent(instance, pricing) ==
    LET pools == pricing.spot_pools
        matched == MatchedPrice(instance, pricing)
    IN IF Falsy(matched) /\ Len(pools) > 0
       THEN [pool_id |-> pools[1].pool_id, price |-> Some(pools[1].price)]
       ELSE [pool_id |-> instance.current_pool_id, price |-> matched]

\* mutant of FrequencyLimitReached: the limit itself is still allowed
FrequencyLimitReached_strict(config, recent_switches_count) ==
    recent_switches_count > config.max_switches_per_week

\* line 96
FrequencyLimitReached(config, recent_switches_count) ==
    recent_switches_count >= config.max_switches_per_week

\* mutant of CooldownActive: the comparison is reversed
CooldownActive_reversed(config, last_switch_time, utcnow) ==
    IF last_switch_time = None THEN FALSE
    ELSE LET hours_since == utcnow - last_switch_time[1]
         IN hours_since > config.min_pool_duration_hours

\* mutant of CooldownActive: an absent last_switch_time counts as hour 0
CooldownActive_absent_is_epoch(config, last_switch_time, utcnow) ==
    LET hours_since == utcnow - (IF last_switch_time = None THEN 0
                                 ELSE last_switch_time[1])
    IN hours_since < config.min_pool_duration_hours

\* lines 109-111; utcnow is what datetime.utcnow() returns during the call
CooldownActive(config, last_switch_time, utcnow) ==
    IF last_switch_time = None THEN FALSE
    ELSE LET hours_since == utcnow - last_switch_time[1]
         IN hours_since < config.min_pool_duration_hours

\* mutant of BestPool: among the quotes of minimal price, the last one
BestPool_last(pools) ==
    pools[CHOOSE i \in 1..Len(pools) :
            /\ \A j \in 1..Len(pools) : pools[i].price <= pools[j].price
            /\ \A j \in (i + 1)..Len(pools) : pools[j].price > pools[i].price]

\* mutant of BestPool: the first quote, whatever its price
BestPool_first(pools) == pools[1]

\* min(pricing['spot_pools'], key=lambda p: p['price']): the first quote of
\* minimal price (spot_pools is not empty)
BestPool(pools) ==
    pools[CHOOSE i \in 1..Len(pools) :
            /\ \A j \in 1..Len(pools) : pools[i].price <= pools[j].price
            /\ \A j \in 1..(i - 1) : pools[j].price > pools[i].price]

\* (amount / ondemand_price) * 100 >= min_savings_percent, ondemand_price # 0,
\* as the floats evaluate it
SavingsPctAtLeast(amount, ondemand_price, min_savings_percent, pct_rounds_down) ==
    IF amount * 100 = min_savings_percent * ondemand_price
    THEN ~pct_rounds_down
    ELSE IF ondemand_price > 0
    THEN amount * 100 > min_savings_percent * ondemand_price
    ELSE amount * 100 < min_savings_percent * ondemand_price

\* the value of the field scored while the scorer has not returned
NoScore == ScoreRaised("not called")

\* A call that raised: no Decision is returned.  The fields gate, current,
\* scorer_calls and scored record how far the call got: the policy gate that
\* fired, the pool and price resolved as current, the number of
\* calculate_risk_score calls and what the scorer answered.
Raised(exc, current, scorer_calls, scored) ==
    [raised |-> exc, instance_id |-> "", risk_score |-> 0,
     recommended_action |-> "", recommended_mode |-> "",
     recommended_pool_id |-> "", expected_savings_per_hour |-> 0,
     allowed |-> FALSE, reason |-> "",
     gate |-> "none", current |-> current,
     scorer_calls |-> scorer_calls, scored |-> scored]

\* lines 97-106 and 112-121: the Decision of a policy gate
GateDecision(instance, current, gate) ==
    [raised |-> "", instance_id |-> instance.instance_id, risk_score |-> 0,
     recommended_action |-> "stay",
     recommended_mode |-> instance.current_mode,
     recommended_pool_id |-> current.pool_id,
     expected_savings_per_hour |-> 0,
     allowed |-> FALSE,
     reason |-> IF gate = "frequency" THEN "Switch limit reached"
                ELSE "Too soon to switch",
     gate |-> gate, current |-> current,
     scorer_calls |-> 0, scored |-> NoScore]

\* mutant of Decision: every Decision of the action selection is allowed
Decision_always_allowed(instance, config, current, scored, action, mode, pool_id, savings, reason) ==
    [raised |-> "", instance_id |-> instance.instance_id,
     risk_score |-> scored.risk_score,
     recommended_action |-> action,
     recommended_mode |-> mode,
     recommended_pool_id |-> pool_id,
     expected_savings_per_hour |-> savings,
     allowed |-> TRUE,
     reason |-> reason,
     gate |-> "none", current |-> current,
     scorer_calls |-> 1, scored |-> scored]

\* lines 170-179: the Decision returned after action selection
Decision(instance, config, current, scored, action, mode, pool_id, savings, reason) ==
    [raised |-> "", instance_id |-> instance.instance_id,
     risk_score |-> scored.risk_score,
     recommended_action |-> action,
     recommended_mode |-> mode,
     recommended_pool_id |-> pool_id,
     expected_savings_per_hour |-> savings,
     allowed |-> config.auto_switch_enabled,
     reason |-> reason,
     gate |-> "none", current |-> current,
     scorer_calls |-> 1, scored |-> scored]

Stay(instance, config, current, scored) ==
    Decision(instance, config, current, scored, "stay",
             instance.current_mode, current.pool_id, 0, scored.reason)

\* mutant of FallbackSavings: the sign is dropped
FallbackSavings_unsigned(ondemand_price, current_spot_price) ==
    ondemand_price - current_spot_price

\* line 141: expected_savings = -(ondemand_price - current_spot_price)
FallbackSavings(ondemand_price, current_spot_price) ==
    -(ondemand_price - current_spot_price)

\* mutant of FallbackApplies: the risky states fall back whatever the score
FallbackApplies_state_only(config, scored) ==
    scored.state \in {"event", "high-risk"}

\* line 137
FallbackApplies(config, scored) ==
    scored.state \in {"event", "high-risk"} /\ scored.risk_score >= config.risk_threshold

\* mutant of SelectAction: only a spot instance falls back to on-demand
SelectAction_fallback_from_spot_only(instance, pricing, config, current, scored) ==
    LET pools == pricing.spot_pools
        ondemand_price == pricing.on_demand_price
        current_mode == instance.current_mode
    IN
    IF FallbackApplies(config, scored) /\ current_mode = "spot"
    THEN IF current.price = None
         THEN Raised("TypeError", current, 1, scored)
         ELSE Decision(instance, config, current, scored, "fallback_ondemand",
                       "ondemand", "n/a",
                       FallbackSavings(ondemand_price, current.price[1]),
                       "High risk detected")
    ELSE IF scored.state = "safe-to-return" /\ current_mode = "ondemand"
    THEN IF Len(pools) = 0 THEN Raised("ValueError", current, 1, scored)
         ELSE IF ondemand_price = 0 THEN Raised("ZeroDivisionError", current, 1, scored)
         ELSE LET best_pool == BestPool(pools) IN
              IF SavingsPctAtLeast(ondemand_price - best_pool.price, ondemand_price,
                                   config.min_savings_percent,
                                   pricing.pct_rounds_down)
              THEN Decision(instance, config, current, scored, "switch_pool",
                            "spot", best_pool.pool_id,
                            ondemand_price - best_pool.price,
                            "Safe to return to spot")
              ELSE Stay(instance, config, current, scored)
    ELSE IF current_mode = "spot" /\ scored.state = "normal"
    THEN IF Len(pools) = 0 THEN Raised("ValueError", current, 1, scored)
         ELSE LET best_pool == BestPool(pools) IN
              IF best_pool.pool_id # current.pool_id
              THEN IF ondemand_price = 0
                   THEN Raised("ZeroDivisionError", current, 1, scored)
                   ELSE LET savings == current.price[1] - best_pool.price IN
                        IF SavingsPctAtLeast(savings, ondemand_price,
                                             config.min_savings_percent,
                                             pricing.pct_rounds_down)
                        THEN Decision(instance, config, current, scored,
                                      "switch_pool", "spot", best_pool.pool_id,
                                      savings, "Better pool available")
                        ELSE Stay(instance, config, current, scored)
              ELSE Stay(instance, config, current, scored)
    ELSE Stay(instance, config, current, scored)

\* lines 129-179: action selection given the scorer's answer
SelectAction(instance, pricing, config, current, scored) ==
    LET pools == pricing.spot_pools
        ondemand_price == pricing.on_demand_price
        current_mode == instance.current_mode
    IN
    IF FallbackApplies(config, scored)
    THEN IF current.price = None
         THEN Raised("TypeError", current, 1, scored)
         ELSE Decision(instance, config, current, scored, "fallback_ondemand",
                       "ondemand", "n/a",
                       FallbackSavings(ondemand_price, current.price[1]),
                       "High risk detected")
    ELSE IF scored.state = "safe-to-return" /\ current_mode = "ondemand"
    THEN IF Len(pools) = 0 THEN Raised("ValueError", current, 1, scored)
         ELSE IF ondemand_price = 0 THEN Raised("ZeroDivisionError", current, 1, scored)
         ELSE LET best_pool == BestPool(pools) IN
              IF SavingsPctAtLeast(ondemand_price - best_pool.price, ondemand_price,
                                   config.min_savings_percent,
                                   pricing.pct_rounds_down)
              THEN Decision(instance, config, current, scored, "switch_pool",
                            "spot", best_pool.pool_id,
                            ondemand_price - best_pool.price,
                            "Safe to return to spot")
              ELSE Stay(instance, config, current, scored)
    ELSE IF current_mode = "spot" /\ scored.state = "normal"
    THEN IF Len(pools) = 0 THEN Raised("ValueError", current, 1, scored)
         ELSE LET best_pool == BestPool(pools) IN
              IF best_pool.pool_id # current.pool_id
              THEN IF ondemand_price = 0
                   THEN Raised("ZeroDivisionError", current, 1, scored)
                   ELSE LET savings == current.price[1] - best_pool.price IN
                        IF SavingsPctAtLeast(savings, ondemand_price,
                                             config.min_savings_percent,
                                             pricing.pct_rounds_down)
                        THEN Decision(instance, config, current, scored,
                                      "switch_pool", "spot", best_pool.pool_id,
                                      savings, "Better pool available")
                        ELSE Stay(instance, config, current, scored)
              ELSE Stay(instance, config, current, scored)
    ELSE Stay(instance, config, current, scored)

\* line 124: current_discount = 1 - price/ondemand_price if ondemand_price > 0 else 0
CurrentDiscount(current_spot_price, ondemand_price) ==
    IF ondemand_price > 0
    THEN [n |-> ondemand_price - current_spot_price[1], d |-> ondemand_price]
    ELSE [n |-> 0, d |-> 1]

\* lines 123-179: risk scoring, then action selection
ScoreAndSelect(instance, pricing, config, current) ==
    LET ondemand_price == pricing.on_demand_price IN
    IF RatioFails(current.price, ondemand_price)
    THEN Raised("TypeError", current, 0, NoScore)
    ELSE LET scored == calculate_risk_score(
                           current.pool_id, current.price,
                           CurrentDiscount(current.price, ondemand_price),
                           ondemand_price)
         IN IF scored.raised # ""
            THEN Raised(scored.raised, current, 1, scored)
            ELSE SelectAction(instance, pricing, config, current, scored)

\* mutant of make_decision: the risk is scored before the policy gates are
\* checked, and a gate's Decision reports it
make_decision_scores_first(instance, pricing, config, recent_switches_count, last_switch_time, utcnow) ==
    LET current == ResolveCurrent(instance, pricing)
        selected == ScoreAndSelect(instance, pricing, config, current)
        gate == IF FrequencyLimitReached(config, recent_switches_count)
                THEN "frequency"
                ELSE IF CooldownActive(config, last_switch_time, utcnow)
                THEN "cooldown" ELSE "none"
    IN IF gate = "none" \/ selected.raised # "" THEN selected
       ELSE [GateDecision(instance, current, gate) EXCEPT
                !.risk_score = selected.risk_score,
                !.scorer_calls = selected.scorer_calls,
                !.scored = selected.scored]

\* lines 73-179; utcnow is what datetime.utcnow() returns during the call
make_decision(instance, pricing, config, recent_switches_count, last_switch_time, utcnow) ==
    LET current == ResolveCurrent(instance, pricing) IN
    IF FrequencyLimitReached(config, recent_switches_count)
    THEN GateDecision(instance, current, "frequency")
    ELSE IF CooldownActive(config, last_switch_time, utcnow)
    THEN GateDecision(instance, current, "cooldown")
    ELSE ScoreAndSelect(instance, pricing, config, current)

-----------------------------------------------------------------------------
(* Engine load *)

\* What reading the model bundle can yield:
\*   ok              every file is read and has the expected keys
\*   unreadable      opening or parsing fails before anything is assigned
\*   no_models       price_predictor lacks 'models' (KeyError at line 223)
\*   no_pool_context capacity_detector lacks 'pool_context' (KeyError at line 222)
Artifacts == {"ok", "unreadable", "no_models", "no_pool_context"}

\* MLBasedDecisionEngine.load: the fields it leaves behind and whether it raises
MLBased_load(artifact) ==
    IF artifact = "unreadable"
    THEN [loaded |-> loaded.ml, capacity_detector |-> capacity_detector,
          price_predictor |-> price_predictor, raised |-> TRUE]
    ELSE [loaded |-> TRUE,
          capacity_detector |-> IF artifact = "no_pool_context"
                                THEN "no_pool_context" ELSE "valid",
          price_predictor |-> IF artifact = "no_models" THEN "no_models" ELSE "valid",
          raised |-> artifact # "ok"]

NoResult == Raised("pending", [pool_id |-> "", price |-> None], 0, NoScore)

\* the value of call while no call is on record
NoCall ==
    [instance |-> [instance_id |-> "", current_mode |-> "", current_pool_id |-> ""],
     pricing |-> [on_demand_price |-> 0, spot_pools |-> <<>>,
                  pct_rounds_down |-> FALSE],
     config |-> [auto_switch_enabled |-> FALSE, min_savings_percent |-> 0,
                 risk_threshold |-> 0, max_switches_per_week |-> 0,
                 min_pool_duration_hours |-> 0],
     recent_switches_count |-> 0,
     last_switch_time |-> None]

Returned(r) == r.raised = ""

\* DecisionEngine.is_loaded(): self.loaded of the engine object selected
is_loaded ==
    IF engine_type = "ml_based" THEN loaded.ml
    ELSE IF engine_type = "rule_based" THEN loaded.rule
    ELSE loaded.hybrid

HasRaised(r) == r.raised \notin {"", "pending"}

-----------------------------------------------------------------------------
(* src/backend.py: the server's DecisionEngine class and the global        *)
(* decision_engine built from config.DECISION_ENGINE_TYPE                  *)

\* values of the environment variable DECISION_ENGINE_TYPE: the three
\* engine types and a string that names none
ConfiguredEngineTypes == EngineTypes \cup {"bogus"}

\* what _load_ml_model finds at MODEL_DIR / 'spot_optimizer_model.pkl'
ModelFiles == {"present", "absent", "corrupt"}

\* risk scores handed to should_switch, in hundredths
RiskScores == {50, 70, 80}

\* pct_rounds_down is told apart only where a percentage can fall on the 10
\* of line 314
SwitchRequests ==
    { r \in [instance_data : [current_mode : Modes],
             pricing_data : Pricings,
             risk_score : RiskScores] :
        r.pricing_data.pct_rounds_down =>
            PctOnBoundary(r.pricing_data.on_demand_price,
                          r.pricing_data.spot_pools, 10) }

\* DecisionEngine._load_ml_model: the fields it leaves behind
Backend_load_ml_model(model_file) ==
    IF model_file = "present" THEN [engine_type |-> "ml_based", model |-> "loaded"]
    ELSE IF model_file = "absent" THEN [engine_type |-> "ml_based", model |-> "None"]
    ELSE [engine_type |-> "rule_based", model |-> "None"]

\* DecisionEngine.__init__(engine_type) of backend.py
Backend_DecisionEngine(engine_type_string, model_file) ==
    IF engine_type_string = "ml_based" THEN Backend_load_ml_model(model_file)
    ELSE [engine_type |-> engine_type_string, model |-> "None"]

\* the tuple (switch, target, pool_id) should_switch returns
SwitchAnswer(switch, target, pool_id) ==
    [switch |-> switch, target |-> target, pool_id |-> pool_id]

\* DecisionEngine._rule_based_decision
Backend_rule_based_decision(instance_data, pricing_data, risk_score) ==
    LET current_mode == instance_data.current_mode
        on_demand_price == pricing_data.on_demand_price
        spot_pools == pricing_data.spot_pools
    IN IF Len(spot_pools) = 0 \/ on_demand_price <= 0
       THEN SwitchAnswer(FALSE, "insufficient_data", None)
       ELSE LET best_pool == BestPool(spot_pools)
                best_spot_price == best_pool.price
                savings_at_least_10 ==
                    SavingsPctAtLeast(on_demand_price - best_spot_price,
                                      on_demand_price, 10,
                                      pricing_data.pct_rounds_down)
            IN IF current_mode = "ondemand" /\ savings_at_least_10 /\ risk_score < 70
               THEN SwitchAnswer(TRUE, "spot", Some(best_pool.pool_id))
               ELSE IF current_mode = "spot" /\ risk_score >= 80
               THEN SwitchAnswer(TRUE, "ondemand", None)
               ELSE SwitchAnswer(FALSE, "no_action", None)

\* DecisionEngine._ml_decision
Backend_ml_decision(instance_data, pricing_data, risk_score) ==
    Backend_rule_based_decision(instance_data, pricing_data, risk_score)

\* DecisionEngine.should_switch
Backend_should_switch(instance_data, pricing_data, risk_score) ==
    IF decision_engine.engine_type = "ml_based" /\ decision_engine.model # "None"
    THEN Backend_ml_decision(instance_data, pricing_data, risk_score)
    ELSE Backend_rule_based_decision(instance_data, pricing_data, risk_score)

NoSwitchRequest ==
    [instance_data |-> [current_mode |-> ""],
     pricing_data |-> [on_demand_price |-> 0, spot_pools |-> <<>>,
                       pct_rounds_down |-> FALSE],
     risk_score |-> 0]

NoSwitchAnswer == SwitchAnswer(FALSE, "pending", None)

NoHealth == [status |-> "", decision_engine_type |-> "", model_loaded |-> FALSE]

\* the server process of backend.py has not been started
\* a caller that is not inside make_decision
IdleThread ==
    [pc |-> "idle", args |-> NoCall, utcnow |-> 0,
     current |-> [pool_id |-> "", price |-> None],
     scored |-> NoScore, ret |-> NoResult]

\* the callers that use one engine at a time
Threads == {"t1", "t2"}

NoConcurrentCallers == threads = [i \in Threads |-> IdleThread]

\* ids of the tables' rows.  register_agent names a new agent
\* "agent-" + instance_id[:12] (line 357), or "agent-" + a random token if
\* that id is taken (line 362)
LogicalAgentIds == {"L1"}
InstanceIds == {"i-1", "i-2"}
AgentIds == {"agent-i-1", "agent-i-2", "agent-token"}

\* line 357
AgentIdFor(instance_id) == IF instance_id = "i-1" THEN "agent-i-1" ELSE "agent-i-2"

NoInstance == [present |-> FALSE, agent_id |-> "", is_active |-> FALSE]

\* the server's worker threads
Handlers == {"h1", "h2"}

\* a worker that is not handling a request
IdleHandler ==
    [endpoint |-> "", pc |-> "idle", logical_agent_id |-> "", instance_id |-> "",
     old_instance_id |-> "", agent_id |-> "", instance_exists |-> FALSE,
     status |-> 0]

\* the tables are empty and no request has come in
NoRequests ==
    /\ agents = {}
    /\ instances = [i \in InstanceIds |-> NoInstance]
    /\ pending_switch_commands = <<>>
    /\ handlers = [h \in Handlers |-> IdleHandler]
    /\ request_count = 0

BackendNotStarted ==
    /\ decision_engine = [engine_type |-> "", model |-> "None"]
    /\ switch_request = NoSwitchRequest
    /\ switch_answer = NoSwitchAnswer
    /\ health = NoHealth
    /\ NoRequests

Init ==
    /\ engine_type \in EngineTypes
    /\ loaded = [ml |-> FALSE, rule |-> FALSE, hybrid |-> FALSE]
    /\ capacity_detector = "None"
    /\ price_predictor = "None"
    /\ load_count = 0
    /\ load_raised = FALSE
    /\ ml_load_raised = FALSE
    /\ now = 0
    /\ call = NoCall
    /\ result = NoResult
    /\ first_served = 0
    /\ BackendNotStarted
    /\ NoConcurrentCallers

\* DecisionEngine.load() on a RuleBasedDecisionEngine
LoadRuleBased ==
    /\ engine_type = "rule_based"
    /\ load_count < MaxLoads
    /\ loaded' = [loaded EXCEPT !.rule = TRUE]
    /\ load_count' = load_count + 1
    /\ load_raised' = FALSE
    /\ call' = NoCall
    /\ result' = NoResult
    /\ UNCHANGED first_served
    /\ UNCHANGED <<engine_type, capacity_detector, price_predictor,
                   ml_load_raised, now>>
    /\ UNCHANGED backend_vars
    /\ UNCHANGED threads

\* DecisionEngine.load() on an MLBasedDecisionEngine: the exception is re-raised
LoadMLBased ==
    /\ engine_type = "ml_based"
    /\ load_count < MaxLoads
    /\ \E artifact \in Artifacts :
         LET ml == MLBased_load(artifact) IN
         /\ loaded' = [loaded EXCEPT !.ml = ml.loaded]
         /\ capacity_detector' = ml.capacity_detector
         /\ price_predictor' = ml.price_predictor
         /\ ml_load_raised' = ml.raised
         /\ load_raised' = ml.raised
    /\ load_count' = load_count + 1
    /\ call' = NoCall
    /\ result' = NoResult
    /\ UNCHANGED first_served
    /\ UNCHANGED <<engine_type, now>>
    /\ UNCHANGED backend_vars
    /\ UNCHANGED threads

\* DecisionEngine.load() on a HybridDecisionEngine: an exception of the ML
\* load is caught and the rule engine is loaded either way
LoadHybrid ==
    /\ engine_type = "hybrid"
    /\ load_count < MaxLoads
    /\ \E artifact \in Artifacts :
         LET ml == MLBased_load(artifact) IN
         /\ loaded' = [ml |-> ml.loaded, rule |-> TRUE, hybrid |-> TRUE]
         /\ capacity_detector' = ml.capacity_detector
         /\ price_predictor' = ml.price_predictor
         /\ ml_load_raised' = ml.raised
    /\ load_raised' = FALSE
    /\ load_count' = load_count + 1
    /\ call' = NoCall
    /\ result' = NoResult
    /\ UNCHANGED first_served
    /\ UNCHANGED <<engine_type, now>>
    /\ UNCHANGED backend_vars
    /\ UNCHANGED threads

\* DecisionEngine.make_decision(**kwargs), served when the clock reads t:
\* the first call the engine serves as it now is.  make_decision assigns no
\* field of the engine (lines 73-179), so a later call meets the same
\* engine; SpecRepeated follows a caller past the first call.
MakeDecision ==
    /\ UNCHANGED <<engine_type, loaded, capacity_detector, price_predictor,
                   load_count, load_raised, ml_load_raised>>
    /\ UNCHANGED backend_vars
    /\ UNCHANGED threads
    /\ UNCHANGED first_served
    /\ result = NoResult
    /\ \E c \in Calls, t \in now..MaxTime :
         /\ call' = c
         /\ now' = t
         /\ result' = make_decision(c.instance, c.pricing, c.config,
                                    c.recent_switches_count, c.last_switch_time, t)

Next ==
    \/ LoadRuleBased
    \/ LoadMLBased
    \/ LoadHybrid
    \/ MakeDecision

Spec == Init /\ [][Next]_vars

-----------------------------------------------------------------------------
(* The server process of backend.py *)

\* the facade of decision_engine.py is not part of the server process
EngineNotConstructed ==
    /\ engine_type = ""
    /\ loaded = [ml |-> FALSE, rule |-> FALSE, hybrid |-> FALSE]
    /\ capacity_detector = "None"
    /\ price_predictor = "None"
    /\ load_count = 0
    /\ load_raised = FALSE
    /\ ml_load_raised = FALSE
    /\ now = 0
    /\ call = NoCall
    /\ result = NoResult
    /\ first_served = 0

\* the module has been imported: decision_engine =
\* DecisionEngine(config.DECISION_ENGINE_TYPE)
InitBackend ==
    /\ EngineNotConstructed
    /\ \E engine_type_string \in ConfiguredEngineTypes, model_file \in ModelFiles :
         decision_engine = Backend_DecisionEngine(engine_type_string, model_file)
    /\ switch_request = NoSwitchRequest
    /\ switch_answer = NoSwitchAnswer
    /\ health = NoHealth
    /\ NoRequests
    /\ NoConcurrentCallers

\* decision_engine.should_switch(instance_data, pricing_data, risk_score).
\* The caller repeats the arguments of the call on record, if there is one.
ShouldSwitch ==
    /\ \E r \in (IF switch_answer = NoSwitchAnswer
                 THEN SwitchRequests ELSE {switch_request}) :
         /\ switch_request' = r
         /\ switch_answer' =
                Backend_should_switch(r.instance_data, r.pricing_data, r.risk_score)
    /\ UNCHANGED <<decision_engine, health>>
    /\ UNCHANGED endpoint_vars
    /\ UNCHANGED engine_vars
    /\ UNCHANGED threads

\* GET /health: the database answers or not
HealthCheck ==
    /\ \E database_connected \in BOOLEAN :
         health' = IF database_connected
                   THEN [status |-> "healthy",
                         decision_engine_type |-> decision_engine.engine_type,
                         model_loaded |-> decision_engine.model # "None"]
                   ELSE [status |-> "unhealthy", decision_engine_type |-> "",
                         model_loaded |-> FALSE]
    /\ UNCHANGED <<decision_engine, switch_request, switch_answer>>
    /\ UNCHANGED endpoint_vars
    /\ UNCHANGED engine_vars
    /\ UNCHANGED threads

NextBackend ==
    \/ ShouldSwitch
    \/ HealthCheck

SpecBackend == InitBackend /\ [][NextBackend]_vars

-----------------------------------------------------------------------------
(* The endpoints of backend.py that write the tables instances and         *)
(* pending_switch_commands.  Every execute_query call opens a connection,  *)
(* runs one statement and commits (lines 126-154), so a handler is a       *)
(* sequence of separately committed statements, and the statements of the  *)
(* requests that the server handles at the same time interleave.           *)

\* what a handler step leaves alone outside the tables
EndpointFrame ==
    /\ UNCHANGED engine_vars
    /\ UNCHANGED threads
    /\ UNCHANGED <<decision_engine, switch_request, switch_answer, health>>

\* worker h can take the next request
Accepts(h) ==
    handlers[h].pc \in {"idle", "done"} /\ request_count < MaxRequests

\* the handler returns with this HTTP status
Respond(h, status) ==
    [handlers EXCEPT ![h].pc = "done", ![h].status = status]

\* POST /api/agents/register, lines 346-356: the agent of this logical id
RegisterAgent_FindAgent(h) ==
    /\ Accepts(h)
    /\ \E logical_agent_id \in LogicalAgentIds, instance_id \in InstanceIds :
         LET existing == { a \in agents : a.logical_agent_id = logical_agent_id }
             req == [IdleHandler EXCEPT !.endpoint = "register_agent",
                                        !.logical_agent_id = logical_agent_id,
                                        !.instance_id = instance_id]
         IN IF existing # {}
            THEN \E existing_agent \in existing :
                   handlers' = [handlers EXCEPT ![h] =
                       [req EXCEPT !.pc = "deactivate_others",
                                   !.agent_id = existing_agent.id]]
            ELSE handlers' = [handlers EXCEPT ![h] =
                       [req EXCEPT !.pc = "pick_agent_id",
                                   !.agent_id = AgentIdFor(instance_id)]]
    /\ request_count' = request_count + 1
    /\ UNCHANGED <<agents, instances, pending_switch_commands>>
    /\ EndpointFrame

\* lines 360-362: another id if agent_id is taken
RegisterAgent_PickAgentId(h) ==
    /\ handlers[h].endpoint = "register_agent"
    /\ handlers[h].pc = "pick_agent_id"
    /\ handlers' = [handlers EXCEPT
           ![h].pc = "insert_agent",
           ![h].agent_id = IF \E a \in agents : a.id = handlers[h].agent_id
                           THEN "agent-token" ELSE handlers[h].agent_id]
    /\ UNCHANGED <<agents, instances, pending_switch_commands, request_count>>
    /\ EndpointFrame

\* lines 364-367: INSERT INTO agents; a duplicate id is an error (lines 435-438)
RegisterAgent_InsertAgent(h) ==
    /\ handlers[h].endpoint = "register_agent"
    /\ handlers[h].pc = "insert_agent"
    /\ IF \E a \in agents : a.id = handlers[h].agent_id
       THEN /\ handlers' = Respond(h, 500)
            /\ UNCHANGED agents
       ELSE /\ agents' = agents \cup
                   {[id |-> handlers[h].agent_id,
                     logical_agent_id |-> handlers[h].logical_agent_id]}
            /\ handlers' = [handlers EXCEPT ![h].pc = "deactivate_others"]
    /\ UNCHANGED <<instances, pending_switch_commands, request_count>>
    /\ EndpointFrame

\* lines 383-389: the other active instances of the logical agent are
\* deactivated
RegisterAgent_DeactivateOthers(h) ==
    /\ handlers[h].endpoint = "register_agent"
    /\ handlers[h].pc = "deactivate_others"
    /\ instances' =
         [i \in InstanceIds |->
            IF /\ instances[i].present /\ instances[i].is_active
               /\ i # handlers[h].instance_id
               /\ \E a \in agents :
                     /\ a.id = instances[i].agent_id
                     /\ a.logical_agent_id = handlers[h].logical_agent_id
            THEN [instances[i] EXCEPT !.is_active = FALSE]
            ELSE instances[i]]
    /\ handlers' = [handlers EXCEPT ![h].pc = "find_instance"]
    /\ UNCHANGED <<agents, pending_switch_commands, request_count>>
    /\ EndpointFrame

\* line 392: SELECT the instance row
RegisterAgent_FindInstance(h) ==
    /\ handlers[h].endpoint = "register_agent"
    /\ handlers[h].pc = "find_instance"
    /\ handlers' = [handlers EXCEPT
           ![h].pc = "upsert_instance",
           ![h].instance_exists = instances[handlers[h].instance_id].present]
    /\ UNCHANGED <<agents, instances, pending_switch_commands, request_count>>
    /\ EndpointFrame

\* lines 394-410: INSERT the instance row, or UPDATE it, with is_active TRUE
RegisterAgent_UpsertInstance(h) ==
    /\ handlers[h].endpoint = "register_agent"
    /\ handlers[h].pc = "upsert_instance"
    /\ LET instance_id == handlers[h].instance_id
       IN IF ~handlers[h].instance_exists /\ instances[instance_id].present
          THEN /\ handlers' = Respond(h, 500)
               /\ UNCHANGED instances
          ELSE /\ instances' = [instances EXCEPT ![instance_id] =
                      [present |-> TRUE, agent_id |-> handlers[h].agent_id,
                       is_active |-> TRUE]]
               /\ handlers' = Respond(h, 200)
    /\ UNCHANGED <<agents, pending_switch_commands, request_count>>
    /\ EndpointFrame

\* POST /api/agents/<agent_id>/switch-report, lines 616-666: the old
\* instance is deactivated
SwitchReport_DeactivateOld(h) ==
    /\ Accepts(h)
    /\ \E agent_id \in AgentIds, old_instance_id \in InstanceIds,
          new_instance_id \in InstanceIds :
         /\ handlers' = [handlers EXCEPT ![h] =
                [IdleHandler EXCEPT !.endpoint = "switch_report",
                                    !.pc = "upsert_new",
                                    !.agent_id = agent_id,
                                    !.old_instance_id = old_instance_id,
                                    !.instance_id = new_instance_id]]
         /\ instances' =
                IF instances[old_instance_id].present
                THEN [instances EXCEPT ![old_instance_id].is_active = FALSE]
                ELSE instances
    /\ request_count' = request_count + 1
    /\ UNCHANGED <<agents, pending_switch_commands>>
    /\ EndpointFrame

\* lines 668-678: INSERT the new instance ... ON DUPLICATE KEY UPDATE
\* agent_id, is_active = TRUE
SwitchReport_UpsertNew(h) ==
    /\ handlers[h].endpoint = "switch_report"
    /\ handlers[h].pc = "upsert_new"
    /\ instances' = [instances EXCEPT ![handlers[h].instance_id] =
           [present |-> TRUE, agent_id |-> handlers[h].agent_id,
            is_active |-> TRUE]]
    /\ handlers' = Respond(h, 200)
    /\ UNCHANGED <<agents, pending_switch_commands, request_count>>
    /\ EndpointFrame

\* the commands of this agent for this instance with executed_at IS NULL
UnexecutedCommands(agent_id, instance_id) ==
    { c \in 1..Len(pending_switch_commands) :
        /\ pending_switch_commands[c].agent_id = agent_id
        /\ pending_switch_commands[c].instance_id = instance_id
        /\ ~pending_switch_commands[c].executed }

\* POST /api/client/instances/<instance_id>/force-switch, lines 1113-1126:
\* the instance's agent
ForceInstanceSwitch_FindInstance(h) ==
    /\ Accepts(h)
    /\ \E instance_id \in InstanceIds :
         LET req == [IdleHandler EXCEPT !.endpoint = "force_instance_switch",
                                        !.instance_id = instance_id]
         IN handlers' = [handlers EXCEPT ![h] =
                IF instances[instance_id].present
                THEN [req EXCEPT !.pc = "find_pending",
                                 !.agent_id = instances[instance_id].agent_id]
                ELSE [req EXCEPT !.pc = "done", !.status = 404]]
    /\ request_count' = request_count + 1
    /\ UNCHANGED <<agents, instances, pending_switch_commands>>
    /\ EndpointFrame

\* lines 1132-1137: 409 if a command of this agent for this instance is
\* not yet executed
ForceInstanceSwitch_FindPending(h) ==
    /\ handlers[h].endpoint = "force_instance_switch"
    /\ handlers[h].pc = "find_pending"
    /\ handlers' =
         IF UnexecutedCommands(handlers[h].agent_id, handlers[h].instance_id) # {}
         THEN Respond(h, 409)
         ELSE [handlers EXCEPT ![h].pc = "insert_command"]
    /\ UNCHANGED <<agents, instances, pending_switch_commands, request_count>>
    /\ EndpointFrame

\* lines 1139-1150: INSERT INTO pending_switch_commands
ForceInstanceSwitch_InsertCommand(h) ==
    /\ handlers[h].endpoint = "force_instance_switch"
    /\ handlers[h].pc = "insert_command"
    /\ pending_switch_commands' = Append(pending_switch_commands,
           [agent_id |-> handlers[h].agent_id,
            instance_id |-> handlers[h].instance_id, executed |-> FALSE])
    /\ handlers' = Respond(h, 200)
    /\ UNCHANGED <<agents, instances, request_count>>
    /\ EndpointFrame

\* POST /api/agents/<agent_id>/mark-command-executed, lines 596-608
MarkCommandExecuted(h) ==
    /\ Accepts(h)
    /\ \E agent_id \in AgentIds, command_id \in 1..(Len(pending_switch_commands) + 1) :
         /\ pending_switch_commands' =
                [c \in 1..Len(pending_switch_commands) |->
                   IF c = command_id /\ pending_switch_commands[c].agent_id = agent_id
                   THEN [pending_switch_commands[c] EXCEPT !.executed = TRUE]
                   ELSE pending_switch_commands[c]]
         /\ handlers' = [handlers EXCEPT ![h] =
                [IdleHandler EXCEPT !.endpoint = "mark_command_executed",
                                    !.pc = "done", !.agent_id = agent_id,
                                    !.status = 200]]
    /\ request_count' = request_count + 1
    /\ UNCHANGED <<agents, instances>>
    /\ EndpointFrame

NextEndpoints ==
    \E h \in Handlers :
        \/ RegisterAgent_FindAgent(h)
        \/ RegisterAgent_PickAgentId(h)
        \/ RegisterAgent_InsertAgent(h)
        \/ RegisterAgent_DeactivateOthers(h)
        \/ RegisterAgent_FindInstance(h)
        \/ RegisterAgent_UpsertInstance(h)
        \/ SwitchReport_DeactivateOld(h)
        \/ SwitchReport_UpsertNew(h)
        \/ ForceInstanceSwitch_FindInstance(h)
        \/ ForceInstanceSwitch_FindPending(h)
        \/ ForceInstanceSwitch_InsertCommand(h)
        \/ MarkCommandExecuted(h)

SpecEndpoints == InitBackend /\ [][NextEndpoints]_vars

-----------------------------------------------------------------------------
(* Concurrent callers of one loaded engine.  A make_decision call runs in  *)
(* three steps, in each of which it reads what the code reads there: the   *)
(* arguments and the clock (lines 78-121), the engine's fields (line 125,  *)
(* calculate_risk_score), and the arguments again (lines 129-179).  The    *)
(* steps of different callers interleave freely.                           *)

\* the arguments the concurrent callers pass, a part of Calls
ConcurrentCalls ==
    [instance : [instance_id : {"i-1"}, current_mode : Modes,
                 current_pool_id : {"P1"}],
     pricing : { [on_demand_price |-> 20,
                  spot_pools |-> <<[pool_id |-> "P1", price |-> p],
                                   [pool_id |-> "P2", price |-> 8]>>,
                  pct_rounds_down |-> FALSE] : p \in Prices },
     config : [auto_switch_enabled : {TRUE}, min_savings_percent : {5},
               risk_threshold : {70}, max_switches_per_week : {1},
               min_pool_duration_hours : {1}],
     recent_switches_count : RecentSwitchCounts,
     last_switch_time : {None, Some(0)}]

\* the engine after startup has called load() once and is_loaded() is true
InitConcurrent ==
    /\ engine_type \in EngineTypes
    /\ \E artifact \in Artifacts :
         /\ engine_type = "rule_based" => artifact = "ok"
         /\ engine_type = "ml_based" => artifact # "unreadable"
         /\ loaded = [ml |-> engine_type # "rule_based" /\ artifact # "unreadable",
                      rule |-> engine_type # "ml_based",
                      hybrid |-> engine_type = "hybrid"]
         /\ capacity_detector =
                IF engine_type = "rule_based" \/ artifact = "unreadable" THEN "None"
                ELSE IF artifact = "no_pool_context" THEN "no_pool_context"
                ELSE "valid"
         /\ price_predictor =
                IF engine_type = "rule_based" \/ artifact = "unreadable" THEN "None"
                ELSE IF artifact = "no_models" THEN "no_models"
                ELSE "valid"
         /\ ml_load_raised = (artifact # "ok")
         /\ load_raised = (engine_type = "ml_based" /\ artifact # "ok")
    /\ load_count = 1
    /\ now = 0
    /\ call = NoCall
    /\ result = NoResult
    /\ first_served = 0
    /\ BackendNotStarted
    /\ NoConcurrentCallers

\* lines 78-121: the caller enters make_decision, which resolves the current
\* pool and price and checks the policy gates, reading the clock
ThreadEnter(i) ==
    /\ threads[i].pc = "idle"
    /\ \E c \in ConcurrentCalls, t \in now..MaxTime :
         LET current == ResolveCurrent(c.instance, c.pricing)
             gate == IF FrequencyLimitReached(c.config, c.recent_switches_count)
                     THEN "frequency"
                     ELSE IF CooldownActive(c.config, c.last_switch_time, t)
                     THEN "cooldown" ELSE "none"
         IN /\ now' = t
            /\ threads' = [threads EXCEPT ![i] =
                   [pc |-> IF gate = "none" THEN "scoring" ELSE "done",
                    args |-> c, utcnow |-> t, current |-> current,
                    scored |-> NoScore,
                    ret |-> IF gate = "none" THEN NoResult
                            ELSE GateDecision(c.instance, current, gate)]]
    /\ UNCHANGED <<engine_type, loaded, capacity_detector, price_predictor,
                   load_count, load_raised, ml_load_raised, call, result,
                   first_served>>
    /\ UNCHANGED backend_vars

\* mutant of ThreadScore: the scorer clears the engine's loaded flags while
\* it works
ThreadScore_clears_loaded(i) ==
    /\ threads[i].pc = "scoring"
    /\ LET th == threads[i]
           ondemand_price == th.args.pricing.on_demand_price
       IN IF RatioFails(th.current.price, ondemand_price)
          THEN threads' = [threads EXCEPT
                   ![i].pc = "done",
                   ![i].ret = Raised("TypeError", th.current, 0, NoScore)]
          ELSE LET scored == calculate_risk_score(
                                 th.current.pool_id, th.current.price,
                                 CurrentDiscount(th.current.price, ondemand_price),
                                 ondemand_price)
               IN IF scored.raised # ""
                  THEN threads' = [threads EXCEPT
                           ![i].pc = "done",
                           ![i].scored = scored,
                           ![i].ret = Raised(scored.raised, th.current, 1, scored)]
                  ELSE threads' = [threads EXCEPT
                           ![i].pc = "selecting",
                           ![i].scored = scored]
    /\ loaded' = [ml |-> FALSE, rule |-> FALSE, hybrid |-> FALSE]
    /\ UNCHANGED <<engine_type, capacity_detector, price_predictor,
                   load_count, load_raised, ml_load_raised, now, call, result,
                   first_served>>
    /\ UNCHANGED backend_vars

\* lines 123-127: the discount is computed and calculate_risk_score reads
\* the engine's fields
ThreadScore(i) ==
    /\ threads[i].pc = "scoring"
    /\ LET th == threads[i]
           ondemand_price == th.args.pricing.on_demand_price
       IN IF RatioFails(th.current.price, ondemand_price)
          THEN threads' = [threads EXCEPT
                   ![i].pc = "done",
                   ![i].ret = Raised("TypeError", th.current, 0, NoScore)]
          ELSE LET scored == calculate_risk_score(
                                 th.current.pool_id, th.current.price,
                                 CurrentDiscount(th.current.price, ondemand_price),
                                 ondemand_price)
               IN IF scored.raised # ""
                  THEN threads' = [threads EXCEPT
                           ![i].pc = "done",
                           ![i].scored = scored,
                           ![i].ret = Raised(scored.raised, th.current, 1, scored)]
                  ELSE threads' = [threads EXCEPT
                           ![i].pc = "selecting",
                           ![i].scored = scored]
    /\ UNCHANGED engine_vars
    /\ UNCHANGED backend_vars

\* lines 129-179: the action is selected and the Decision built
ThreadSelect(i) ==
    /\ threads[i].pc = "selecting"
    /\ LET th == threads[i]
       IN threads' = [threads EXCEPT
              ![i].pc = "done",
              ![i].ret = SelectAction(th.args.instance, th.args.pricing,
                                      th.args.config, th.current, th.scored)]
    /\ UNCHANGED engine_vars
    /\ UNCHANGED backend_vars

\* the caller has its Decision (or exception) and may call again
ThreadReturn(i) ==
    /\ threads[i].pc = "done"
    /\ threads' = [threads EXCEPT ![i] = IdleThread]
    /\ UNCHANGED engine_vars
    /\ UNCHANGED backend_vars

NextConcurrent ==
    \E i \in Threads :
        \/ ThreadEnter(i)
        \/ ThreadScore(i)
        \/ ThreadSelect(i)
        \/ ThreadReturn(i)

SpecConcurrent == InitConcurrent /\ [][NextConcurrent]_vars

-----------------------------------------------------------------------------
(* One caller of a loaded engine who passes the same arguments again, at   *)
(* the same hour or a later one.                                           *)

\* DecisionEngine.make_decision(**kwargs), served when the clock reads t
FirstCall ==
    /\ result = NoResult
    /\ \E c \in Calls, t \in now..MaxTime :
         /\ call' = c
         /\ now' = t
         /\ first_served' = t
         /\ result' = make_decision(c.instance, c.pricing, c.config,
                                    c.recent_switches_count, c.last_switch_time, t)
    /\ UNCHANGED <<engine_type, loaded, capacity_detector, price_predictor,
                   load_count, load_raised, ml_load_raised>>
    /\ UNCHANGED backend_vars
    /\ UNCHANGED threads

\* DecisionEngine.make_decision(**kwargs) with the arguments of the call on
\* record, served when the clock reads t
RepeatCall ==
    /\ result # NoResult
    /\ \E t \in now..MaxTime :
         /\ now' = t
         /\ result' = make_decision(call.instance, call.pricing, call.config,
                                    call.recent_switches_count,
                                    call.last_switch_time, t)
    /\ UNCHANGED <<engine_type, loaded, capacity_detector, price_predictor,
                   load_count, load_raised, ml_load_raised, call, first_served>>
    /\ UNCHANGED backend_vars
    /\ UNCHANGED threads

NextRepeated ==
    \/ FirstCall
    \/ RepeatCall

SpecRepeated == InitConcurrent /\ [][NextRepeated]_vars

-----------------------------------------------------------------------------
(* Properties.  A call is on record when result # NoResult; call then     *)
(* holds its arguments and now the clock value it read.                    *)

Served == result # NoResult

\* the frequency gate's condition, on the call on record
FrequencyGateCase ==
    call.recent_switches_count >= call.config.max_switches_per_week

\* the cooldown gate's condition, on the call on record
CooldownGateCase ==
    /\ call.last_switch_time # None
    /\ now - call.last_switch_time[1] < call.config.min_pool_duration_hours

NoGateCase == ~FrequencyGateCase /\ ~CooldownGateCase

\* the scorer was called and returned a (risk_score, state, reason)
ScorerReturned == result.scorer_calls = 1 /\ result.scored.raised = ""

StayNotAllowed ==
    /\ Returned(result)
    /\ result.recommended_action = "stay"
    /\ result.allowed = FALSE

\* C1: whenever recent_switches_count >= max_switches_per_week, make_decision
\* returns recommended_action = stay and allowed = false, whatever the
\* instance, pricing (empty lists included), engine and auto_switch_enabled.
C1_FrequencyGate ==
    (Served /\ FrequencyGateCase) => StayNotAllowed

\* a call at the limit, with auto_switch_enabled and an empty pool list,
\* was answered
C1_Witness ==
    /\ Returned(result)
    /\ FrequencyGateCase
    /\ call.config.auto_switch_enabled
    /\ call.pricing.spot_pools = <<>>
    /\ result.gate = "frequency"

\* C2: whenever last_switch_time is present and the hours elapsed since it,
\* against the clock at call time, are below min_pool_duration_hours,
\* make_decision returns recommended_action = stay and allowed = false.
C2_CooldownGate ==
    (Served /\ CooldownGateCase) => StayNotAllowed

\* a call below the switch limit but inside the cooldown, with
\* auto_switch_enabled, was answered
C2_Witness ==
    /\ Returned(result)
    /\ CooldownGateCase
    /\ ~FrequencyGateCase
    /\ call.config.auto_switch_enabled
    /\ result.gate = "cooldown"

\* C3: the risk_score of every Decision make_decision returns lies in [0, 1]
\* (0..100 hundredths), for every engine type, loaded or not.
C3_RiskScoreInUnitInterval ==
    Returned(result) => (0 <= result.risk_score /\ result.risk_score <= 100)

\* a Decision carrying a score the scorer computed (0.9, the largest) was
\* returned
C3_Witness ==
    /\ Returned(result)
    /\ ScorerReturned
    /\ result.risk_score = 90

\* C4: whenever the frequency gate or the cooldown gate fires,
\* calculate_risk_score is not called during that call and the Decision
\* reports risk_score = 0.0 and expected_savings_per_hour = 0.0.
C4_GatesPrecedeScoring ==
    (Served /\ (FrequencyGateCase \/ CooldownGateCase)) =>
        /\ Returned(result)
        /\ result.scorer_calls = 0
        /\ result.risk_score = 0
        /\ result.expected_savings_per_hour = 0

\* a gate fired on a call with quotes and a loaded engine, whose scorer
\* would have had something to score
C4_Witness ==
    /\ Returned(result)
    /\ result.gate = "cooldown"
    /\ call.pricing.spot_pools # <<>>
    /\ call.pricing.on_demand_price > 0
    /\ loaded.rule
    /\ result.scorer_calls = 0

\* the first quote of minimal price in a non-empty list
CheapestQuote(pools) ==
    LET lowest == CHOOSE p \in { pools[i].price : i \in 1..Len(pools) } :
                      \A i \in 1..Len(pools) : p <= pools[i].price
        first == CHOOSE i \in 1..Len(pools) :
                      /\ pools[i].price = lowest
                      /\ \A j \in 1..Len(pools) : pools[j].price = lowest => i <= j
    IN pools[first]

\* amount / base * 100 >= pct, for base # 0, as the call on record
\* computes it
PercentOfAtLeast(amount, base, pct) ==
    IF amount * 100 = pct * base THEN ~call.pricing.pct_rounds_down
    ELSE IF base > 0 THEN amount * 100 > pct * base ELSE amount * 100 < pct * base

\* load() has been called, it returned normally and the bundle it read had
\* its pool_context: the engine is as a clean startup leaves it
EngineLoadedCleanly ==
    load_count > 0 /\ ~load_raised /\ capacity_detector # "no_pool_context"

\* C5: with spot_pools = [] and no gate firing, make_decision returns a
\* Decision instead of raising, for every engine, mode and policy (stated
\* here for the cleanly loaded engines alone).
C5_NeverRaisesOnEmptyPools ==
    (/\ Served
     /\ EngineLoadedCleanly
     /\ NoGateCase
     /\ call.pricing.spot_pools = <<>>)
    => Returned(result)

\* C6: with on_demand_price <= 0 and a non-empty pool list, make_decision
\* returns a Decision instead of raising, for every engine and mode (stated
\* here for the cleanly loaded engines alone).
C6_NeverRaisesOnNonPositiveGuaranteedPrice ==
    (/\ Served
     /\ EngineLoadedCleanly
     /\ call.pricing.on_demand_price <= 0
     /\ call.pricing.spot_pools # <<>>)
    => Returned(result)

\* C7: when no gate fires and the scorer returns event or high-risk with
\* risk_score >= risk_threshold, the Decision is the fallback: mode ondemand,
\* pool "n/a", expected savings -(on_demand_price - current price) (stated
\* here for the cleanly loaded engines alone).
C7_FallbackSelection ==
    (/\ Served
     /\ EngineLoadedCleanly
     /\ NoGateCase
     /\ ScorerReturned
     /\ result.scored.state \in {"event", "high-risk"}
     /\ result.scored.risk_score >= call.config.risk_threshold)
    => /\ Returned(result)
       /\ result.recommended_action = "fallback_ondemand"
       /\ result.recommended_mode = "ondemand"
       /\ result.recommended_pool_id = "n/a"
       /\ result.current.price # None
       /\ result.expected_savings_per_hour =
              -(call.pricing.on_demand_price - result.current.price[1])

PositivePrices ==
    /\ call.pricing.on_demand_price > 0
    /\ \A i \in 1..Len(call.pricing.spot_pools) : call.pricing.spot_pools[i].price > 0

IsFallback ==
    Returned(result) /\ result.recommended_action = "fallback_ondemand"

\* C8 as stated: every fallback Decision over positive prices has
\* expected_savings_per_hour < 0.
C8_FallbackSavingsNegative ==
    (IsFallback /\ PositivePrices) => result.expected_savings_per_hour < 0

\* C8, amended: every fallback Decision has expected_savings_per_hour =
\* -(on_demand_price - scored price), which is negative exactly when the
\* scored price is below the on-demand price.
C8_FallbackSavingsSign ==
    IsFallback =>
        /\ result.current.price # None
        /\ result.expected_savings_per_hour =
               result.current.price[1] - call.pricing.on_demand_price
        /\ (result.expected_savings_per_hour < 0
               <=> result.current.price[1] < call.pricing.on_demand_price)

\* a fallback Decision over positive prices whose scored price is below the
\* on-demand price, reported as a cost
C8_Witness ==
    /\ IsFallback
    /\ PositivePrices
    /\ result.current.price[1] < call.pricing.on_demand_price
    /\ result.expected_savings_per_hour < 0

C10_CheaperPoolSwitch ==
    (/\ Served
     /\ EngineLoadedCleanly
     /\ NoGateCase
     /\ ScorerReturned
     /\ call.pricing.spot_pools # <<>>
     /\ call.instance.current_mode = "spot"
     /\ result.scored.state = "normal")
    => /\ Returned(result)
       /\ LET best == CheapestQuote(call.pricing.spot_pools)
              od == call.pricing.on_demand_price
              current == result.current
          IN IF /\ best.pool_id # current.pool_id
                /\ PercentOfAtLeast(current.price[1] - best.price, od,
                                    call.config.min_savings_percent)
             THEN /\ result.recommended_action = "switch_pool"
                  /\ result.recommended_pool_id = best.pool_id
                  /\ result.recommended_mode = "spot"
                  /\ result.expected_savings_per_hour = current.price[1] - best.price
             ELSE result.recommended_action = "stay"

\* C11: every stay Decision of the action-selection step (no gate fired) has
\* recommended_mode = the instance's current_mode, recommended_pool_id = the
\* instance's current_pool_id as the caller supplied it, and
\* expected_savings_per_hour = 0, also when that pool has no quote (stated
\* here for the cleanly loaded engines alone).
C11_StayLeavesAssignment ==
    (/\ Served
     /\ EngineLoadedCleanly
     /\ NoGateCase
     /\ Returned(result)
     /\ result.recommended_action = "stay")
    => /\ result.recommended_mode = call.instance.current_mode
       /\ result.recommended_pool_id = call.instance.current_pool_id
       /\ result.expected_savings_per_hour = 0

\* C12: on every call in which no gate fires and a Decision is returned, its
\* allowed field equals config.auto_switch_enabled, whatever the action, the
\* risk score and the pricing.
C12_AllowedIsAutoSwitch ==
    (Served /\ NoGateCase /\ Returned(result))
    => result.allowed = call.config.auto_switch_enabled

\* a switch was recommended while auto_switch_enabled is false, and is
\* reported as not allowed
C12_Witness ==
    /\ Returned(result)
    /\ NoGateCase
    /\ result.recommended_action = "switch_pool"
    /\ ~call.config.auto_switch_enabled
    /\ ~result.allowed

\* C13: every switch_pool Decision targets a pool that is quoted in
\* spot_pools, whose price is the minimum over all quotes, and that is the
\* first quote of that price in input order.
C13_BestPoolDeterministic ==
    (Returned(result) /\ result.recommended_action = "switch_pool")
    => LET pools == call.pricing.spot_pools IN
       \E i \in 1..Len(pools) :
           /\ pools[i].pool_id = result.recommended_pool_id
           /\ \A j \in 1..Len(pools) : pools[i].price <= pools[j].price
           /\ \A j \in 1..(i - 1) : pools[j].price # pools[i].price

\* two quotes share the minimum price and the switch goes to the first
C13_Witness ==
    /\ Returned(result)
    /\ result.recommended_action = "switch_pool"
    /\ Len(call.pricing.spot_pools) = 2
    /\ call.pricing.spot_pools[1].price = call.pricing.spot_pools[2].price
    /\ result.recommended_pool_id = call.pricing.spot_pools[1].pool_id

\* the scorer the facade's engine uses is the rule engine's
RuleScorerActive ==
    \/ engine_type = "rule_based"
    \/ engine_type = "hybrid" /\ ~loaded.ml

\* the scorer the facade's engine uses is the ML engine's
MLScorerActive ==
    \/ engine_type = "ml_based"
    \/ engine_type = "hybrid" /\ loaded.ml

\* C14: the loaded RuleBased scorer, with ratio = current price /
\* on_demand_price (on_demand_price > 0), returns (0.85, high-risk) when
\* ratio >= 0.85, (0.15, safe-to-return) when ratio <= 0.40 and (0.35, normal)
\* otherwise, both boundaries inclusive, for every pool_id.
C14_RuleBasedThresholds ==
    (/\ Served
     /\ RuleScorerActive
     /\ loaded.rule
     /\ result.scorer_calls = 1
     /\ call.pricing.on_demand_price > 0)
    => /\ result.scored.raised = ""
       /\ result.current.price # None
       /\ LET price == result.current.price[1]
              od == call.pricing.on_demand_price
          IN IF price * 100 >= 85 * od
             THEN result.scored.risk_score = 85 /\ result.scored.state = "high-risk"
             ELSE IF price * 100 <= 40 * od
             THEN result.scored.risk_score = 15 /\ result.scored.state = "safe-to-return"
             ELSE result.scored.risk_score = 35 /\ result.scored.state = "normal"

\* the rule scorer scored a price exactly on the 0.85 boundary as high-risk
C14_Witness ==
    /\ Served
    /\ RuleScorerActive
    /\ loaded.rule
    /\ result.scorer_calls = 1
    /\ result.current.price = Some(17)
    /\ call.pricing.on_demand_price = 20
    /\ result.scored.risk_score = 85
    /\ result.scored.state = "high-risk"

\* C15: the loaded ML scorer, for a pool present in the context and with
\* ratio = current price / on_demand_price (1.0 if on_demand_price <= 0),
\* applies exactly one rule, in this order: ratio > absolute_high -> (0.9,
\* event); ratio > p92 -> (0.8, high-risk); ratio > p50 * (1 +
\* spike_threshold) -> (0.6, high-risk); ratio < safe_return -> (0.2,
\* safe-to-return); otherwise (0.3, normal).
C15_ModelBasedPriority ==
    (/\ Served
     /\ MLScorerActive
     /\ loaded.ml
     /\ capacity_detector = "valid"
     /\ result.scorer_calls = 1
     /\ result.current.pool_id \in DOMAIN pool_context)
    => /\ result.scored.raised = ""
       /\ call.pricing.on_demand_price > 0 => result.current.price # None
       /\ LET od == call.pricing.on_demand_price
              n == IF od > 0 THEN result.current.price[1] ELSE 1
              d == IF od > 0 THEN od ELSE 1
              context == pool_context[result.current.pool_id]
              expected ==
                  IF n * 100 > model_cfg.ratio_absolute_high * d THEN <<90, "event">>
                  ELSE IF n * 100 > context.ratio_p92 * d THEN <<80, "high-risk">>
                  ELSE IF n * 10000 >
                          context.ratio_p50 * (100 + model_cfg.ratio_spike_threshold) * d
                  THEN <<60, "high-risk">>
                  ELSE IF n * 100 < model_cfg.ratio_safe_return * d
                  THEN <<20, "safe-to-return">>
                  ELSE <<30, "normal">>
          IN <<result.scored.risk_score, result.scored.state>> = expected

\* the ML scorer answered (0.8, high-risk) for a ratio (0.9) that is above
\* p92 and above the spike level as well
C15_Witness ==
    /\ Served
    /\ MLScorerActive
    /\ result.scorer_calls = 1
    /\ result.current = [pool_id |-> "P1", price |-> Some(9)]
    /\ call.pricing.on_demand_price = 10
    /\ result.scored.risk_score = 80
    /\ result.scored.state = "high-risk"

\* C16: the loaded ML scorer, for a pool_id absent from the context map,
\* returns (0.5, normal, pool not in training data) without raising, for
\* every current price and on_demand_price.
C16_AbsentPoolNeutral ==
    (/\ Served
     /\ MLScorerActive
     /\ loaded.ml
     /\ capacity_detector = "valid"
     /\ result.scorer_calls = 1
     /\ result.current.pool_id \notin DOMAIN pool_context)
    => /\ result.scored.raised = ""
       /\ result.scored.risk_score = 50
       /\ result.scored.state = "normal"
       /\ result.scored.reason = "Pool not in training data"

\* the ML scorer answered (0.5, normal) for an absent pool priced at twice
\* the on-demand price
C16_Witness ==
    /\ Served
    /\ MLScorerActive
    /\ result.scorer_calls = 1
    /\ result.current = [pool_id |-> "P2", price |-> Some(20)]
    /\ call.pricing.on_demand_price = 10
    /\ result.scored.risk_score = 50
    /\ result.scored.state = "normal"

\* the reasons the two scorers of a loaded hybrid engine give
RuleBasedReasons ==
    {"Price ratio >= high_price_threshold", "Price ratio <= safe_price_threshold",
     "Price ratio in normal range"}

MLBasedReasons ==
    {"Pool not in training data", "Ratio exceeds absolute threshold",
     "Ratio above p92", "Ratio spike detected", "Ratio below safe threshold",
     "Normal conditions"}

\* C17: after HybridDecisionEngine.load, every calculate_risk_score call is
\* answered by the ML scorer if the ML load raised nowhere, and by the rule
\* scorer if the ML load raised at any point.
C17_HybridDelegation ==
    (/\ Served
     /\ engine_type = "hybrid"
     /\ load_count > 0
     /\ result.scorer_calls = 1)
    => /\ result.scored.raised = ""
       /\ IF ml_load_raised
          THEN result.scored.reason \in RuleBasedReasons
          ELSE result.scored.reason \in MLBasedReasons

\* C18: a failing model load is not fatal: load() of the selected engine
\* returns normally, and no later make_decision call raises for want of the
\* bundle's keys.
C18_LoadFailureNotFatal ==
    /\ ~load_raised
    /\ (Served /\ ml_load_raised) => result.raised # "KeyError"

\* C19: for the ml_based and the hybrid engine, is_loaded() is true only if
\* the model bundle was loaded: after a load that failed it is false.
C19_IsLoadedReportsBundle ==
    (engine_type \in {"ml_based", "hybrid"} /\ is_loaded)
    => (load_count > 0 /\ ~ml_load_raised)

\* C20: no engine object of an unrecognized type serves calls: the facade
\* of decision_engine.py accepts the three engine types alone, and the
\* engine_type of the server's decision_engine, once it answers
\* should_switch or is reported by /health, is one of them.
C20_NoUnknownEngineType ==
    /\ Served => engine_type \in EngineTypes
    /\ (switch_answer # NoSwitchAnswer \/ health.status = "healthy")
           => decision_engine.engine_type \in EngineTypes

\* C21: load happens exactly once, at construction: in every state after
\* the constructor of DecisionEngine has returned, and so before any
\* make_decision call is served and ever after, the load step of the
\* selected engine has run exactly once.
C21_LoadedOnceAtConstruction ==
    load_count = 1

\* the fields of a Decision, or the exception raised in its place
DecisionFields(r) ==
    <<r.raised, r.instance_id, r.risk_score, r.recommended_action,
      r.recommended_mode, r.recommended_pool_id, r.expected_savings_per_hour,
      r.allowed, r.reason>>

\* a step in which an engine that reports loaded serves the call on record
\* once more
RepeatedCall ==
    Served /\ is_loaded /\ result' # NoResult /\ call' = call

\* the cooldown gate's condition for the call on record when the clock
\* reads t
CooldownVerdict(t) ==
    /\ call.last_switch_time # None
    /\ t - call.last_switch_time[1] < call.config.min_pool_duration_hours

C23_ConcurrentCallsIndependent ==
    /\ [](\A i \in Threads :
            threads[i].pc = "done" =>
                threads[i].ret =
                    make_decision(threads[i].args.instance, threads[i].args.pricing,
                                  threads[i].args.config,
                                  threads[i].args.recent_switches_count,
                                  threads[i].args.last_switch_time,
                                  threads[i].utcnow))
    /\ [][UNCHANGED <<engine_type, loaded, capacity_detector,
                      price_predictor>>]_vars

\* one caller has its scored Decision while the other, which entered with
\* different arguments, is between its scoring and its selection
C23_Witness ==
    /\ is_loaded
    /\ threads["t1"].pc = "done" /\ threads["t1"].ret.scorer_calls = 1
    /\ threads["t1"].ret.recommended_action = "switch_pool"
    /\ threads["t2"].pc = "selecting"
    /\ threads["t2"].args # threads["t1"].args
    /\ threads["t2"].scored.state = "high-risk"

\* C24: the RuleBased scorer is a pure function of its arguments over the
\* whole lifetime of the engine object: no step, from construction on,
\* changes what calculate_risk_score answers for any (pool_id, price,
\* ratio, guaranteed_price).
C24_RuleBasedScorerPure ==
    [][\A pool_id \in PoolIds, price \in Prices, od \in OnDemandPrices :
         RuleBased_calculate_risk_score(
             pool_id, Some(price), CurrentDiscount(Some(price), od), od)'
         = RuleBased_calculate_risk_score(
               pool_id, Some(price), CurrentDiscount(Some(price), od), od)]_vars

\* the positions of the quotes for the instance's current_pool_id in the
\* call on record
MatchingQuotes ==
    { i \in 1..Len(call.pricing.spot_pools) :
        call.pricing.spot_pools[i].pool_id = call.instance.current_pool_id }

\* C25: stale-pool substitution.  When the instance's current_pool_id
\* matches no quote and at least one quote exists, make_decision scores the
\* first quote's pool and price as the current ones; when it matches a
\* quote, that quote's price is scored under the instance's own pool id.
C25_StalePoolSubstitution ==
    (Served /\ result.scorer_calls = 1 /\ Len(call.pricing.spot_pools) > 0)
    => LET pools == call.pricing.spot_pools IN
       IF MatchingQuotes = {}
       THEN result.current = [pool_id |-> pools[1].pool_id,
                              price |-> Some(pools[1].price)]
       ELSE /\ result.current.pool_id = call.instance.current_pool_id
            /\ \E i \in MatchingQuotes :
                   result.current.price = Some(pools[i].price)

\* an instance whose pool has no quote is scored as the first of two quotes
C25_Witness ==
    /\ Served /\ ScorerReturned
    /\ Len(call.pricing.spot_pools) = 2
    /\ MatchingQuotes = {}
    /\ result.current.pool_id = call.pricing.spot_pools[1].pool_id
    /\ result.current.price = Some(call.pricing.spot_pools[1].price)
    /\ call.pricing.spot_pools[1].price # call.pricing.spot_pools[2].price

\* C26: single active instance per logical agent.  After any sequence or
\* interleaving of register_agent and switch_report requests, every logical
\* agent has at most one instance with is_active = TRUE.
C26_SingleActiveInstance ==
    \A logical_agent_id \in LogicalAgentIds :
        Cardinality({ i \in InstanceIds :
                        /\ instances[i].present /\ instances[i].is_active
                        /\ \E a \in agents :
                              /\ a.id = instances[i].agent_id
                              /\ a.logical_agent_id = logical_agent_id }) <= 1

\* C27: at most one un-executed switch command per instance.  At every
\* moment pending_switch_commands holds at most one row with executed_at IS
\* NULL for a given (agent_id, instance_id), also when two force-switch
\* requests for the same instance are handled concurrently.
C27_OneUnexecutedCommand ==
    \A agent_id \in AgentIds, instance_id \in InstanceIds :
        Cardinality(UnexecutedCommands(agent_id, instance_id)) <= 1

\* the scorer called the quote risky but scored it below the policy's
\* risk_threshold
RiskyBelowThreshold ==
    /\ Served /\ NoGateCase /\ ScorerReturned
    /\ result.scored.state \in {"event", "high-risk"}
    /\ result.scored.risk_score < call.config.risk_threshold

\* C28: a risky state below the threshold freezes the instance.  When no
\* gate fires and the scored state is event or high-risk with risk_score
\* below risk_threshold, the Decision is stay with expected savings 0,
\* never switch_pool and never the fallback.
C28_RiskyBelowThresholdStays ==
    RiskyBelowThreshold
    => /\ Returned(result)
       /\ result.recommended_action = "stay"
       /\ result.recommended_mode = call.instance.current_mode
       /\ result.expected_savings_per_hour = 0

\* a spot instance frozen although a cheaper pool meets min_savings_percent
C28_Witness ==
    /\ RiskyBelowThreshold
    /\ call.instance.current_mode = "spot"
    /\ result.recommended_action = "stay"
    /\ LET best == CheapestQuote(call.pricing.spot_pools) IN
       /\ best.pool_id # result.current.pool_id
       /\ PercentOfAtLeast(result.current.price[1] - best.price,
                           call.pricing.on_demand_price,
                           call.config.min_savings_percent)

\* an instance in on-demand mode whose scored quote is event or high-risk
\* at or above the policy's risk_threshold
RiskyOnDemandInstance ==
    /\ Served /\ NoGateCase /\ ScorerReturned
    /\ call.instance.current_mode = "ondemand"
    /\ result.current.price # None
    /\ result.scored.state \in {"event", "high-risk"}
    /\ result.scored.risk_score >= call.config.risk_threshold

\* C29 as stated: such an instance receives fallback_ondemand, pool "n/a"
\* and a non-zero expected_savings_per_hour.
C29_FallbackNonZeroSavings ==
    RiskyOnDemandInstance
    => /\ result.recommended_action = "fallback_ondemand"
       /\ result.recommended_pool_id = "n/a"
       /\ result.expected_savings_per_hour # 0

\* C29: the fallback branch ignores the instance's current mode.  An
\* instance already in on-demand mode whose scored quote is event or
\* high-risk with risk_score >= risk_threshold receives fallback_ondemand
\* (not stay) with recommended_pool_id "n/a" and expected savings of the
\* scored price minus the on-demand price: zero when the two are equal,
\* non-zero otherwise.
C29_FallbackIgnoresMode ==
    RiskyOnDemandInstance
    => /\ Returned(result)
       /\ result.recommended_action = "fallback_ondemand"
       /\ result.recommended_mode = "ondemand"
       /\ result.recommended_pool_id = "n/a"
       /\ result.expected_savings_per_hour =
              result.current.price[1] - call.pricing.on_demand_price

\* an on-demand instance is sent to on-demand with savings below zero
C29_Witness ==
    /\ RiskyOnDemandInstance
    /\ result.recommended_action = "fallback_ondemand"
    /\ result.expected_savings_per_hour < 0

\* C30: with the loaded RuleBased engine, on_demand_price > 0, a non-empty
\* pool list, no gate firing and min_savings_percent <= 60, an instance in
\* ondemand mode whose scored state is safe-to-return always gets
\* switch_pool: the savings check cannot fail.
C30_SafeToReturnAlwaysSwitches ==
    (/\ Served
     /\ engine_type = "rule_based" /\ is_loaded
     /\ call.pricing.on_demand_price > 0
     /\ call.pricing.spot_pools # <<>>
     /\ NoGateCase
     /\ call.config.min_savings_percent <= 60
     /\ call.instance.current_mode = "ondemand"
     /\ ScorerReturned
     /\ result.scored.state = "safe-to-return")
    => /\ Returned(result)
       /\ result.recommended_action = "switch_pool"

====
